---- MODULE Spec2Model ----
(***************************************************************************)
(* A model of the hybrid recommender (recommender.py): the interleaver of  *)
(* regional and global popularity, the normalizers, the rule source and    *)
(* the engine (basket, region, catalog) with its public operations.        *)
(*                                                                         *)
(* Numbers.  Raw counts and rule scores are integers.  Normalized cold-    *)
(* start scores are exact rationals, kept in lowest terms as records       *)
(* [num, den].  The warm-start normalization divides by (max - min + 1e-9);*)
(* such a quotient is kept symbolically as [num, span], standing for       *)
(* num / (span + 1e-9), and compared exactly (see final_cmp).              *)
(***************************************************************************)
EXTENDS Integers, Sequences, FiniteSets, TLC

VARIABLES
    il,         \* interleave_pairs: its arguments, its locals and its position
    basket,     \* HybridRecommender.basket
    region,     \* HybridRecommender.region
    id_to_item, \* HybridRecommender.id_to_item (the catalog)
    db,         \* the storage collaborator: the three tables and its behaviour
    lastCall,   \* the last public call: operation, arguments, outcome
    pf,         \* the pure helper under evaluation: its input and its output
    session     \* st.session_state of the Streamlit script (streamlit_app.py)

vars == <<il, basket, region, id_to_item, db, lastCall, pf, session>>

----------------------------------------------------------------------------
(* Bounds *)

MaxItem == 3
MaxLenA == 2
MaxLenB == 2
MaxTopN == 2
MaxBasketSize == 120
MaxCount == 2
MaxScore == 2

ItemIds == 1..MaxItem

----------------------------------------------------------------------------
(* Exact rationals in lowest terms *)

RECURSIVE GCD(_, _)
GCD(x, y) == IF y = 0 THEN x ELSE GCD(y, x % y)

Abs(x) == IF x < 0 THEN -x ELSE x

Rat(n, d) ==
    LET g == GCD(Abs(n), Abs(d))
        s == IF d < 0 THEN -1 ELSE 1
    IN  [num |-> (s * n) \div g, den |-> (s * d) \div g]

RatLeq(x, y) == x.num * y.den <= y.num * x.den
RatLess(x, y) == x.num * y.den < y.num * x.den
RatMin(x, y) == IF RatLeq(x, y) THEN x ELSE y
RatMax(x, y) == IF RatLeq(x, y) THEN y ELSE x

Zero == Rat(0, 1)
One == Rat(1, 1)

\* dict.get(key, default)
Get(d, k, default) == IF k \in DOMAIN d THEN d[k] ELSE default

\* the ids of a list of (iid, score) or (iid, score, src) entries
Ids(rows) == {rows[k][1] : k \in 1..Len(rows)}

\* s[:n] for n >= 0
Take(s, n) == SubSeq(s, 1, IF n < Len(s) THEN n ELSE Len(s))

\* x = v; F(x): v is evaluated once and F is applied to its value
Bind(v, F(_)) == CHOOSE y \in {F(x) : x \in {v}} : TRUE

----------------------------------------------------------------------------
(* interleave_pairs(a, b, region_norm, threshold, top_n)                   *)
(* The state of one run is a record: the arguments, the locals out, seen,  *)
(* ia, ib, turn, and pc: "loop" at the head of the outer while, "backfill"  *)
(* at the head of the inner while, "done" after the return.                *)

interleave_start(a, b, region_norm, threshold, top_n) ==
    [a |-> a, b |-> b, region_norm |-> region_norm, threshold |-> threshold,
     top_n |-> top_n, out |-> <<>>, seen |-> {}, ia |-> 0, ib |-> 0,
     turn |-> "region", pc |-> "loop"]

\* the condition of the outer while
loop_cond(s) == Len(s.out) < s.top_n /\ (s.ia < Len(s.a) \/ s.ib < Len(s.b))

\* (a variant that counts a missing key as 1.0)
region_passes_default_one(s, iid) == RatLeq(s.threshold, Get(s.region_norm, iid, One))

\* region_norm.get(iid, 0.0) >= threshold
region_passes(s, iid) == RatLeq(s.threshold, Get(s.region_norm, iid, Zero))

\* if turn == "region" and ia < len(a)
region_turn_guard(s) == s.turn = "region" /\ s.ia < Len(s.a)

\* (a variant that keeps the turn when the region entry is not emitted)
region_turn_sticky(s) ==
    LET iid == s.a[s.ia + 1][1]
        score == s.a[s.ia + 1][2]
        emit == iid \notin s.seen /\ region_passes(s, iid)
    IN  [s EXCEPT !.ia = @ + 1,
                  !.out = IF emit THEN Append(@, <<iid, score, "region">>) ELSE @,
                  !.seen = IF emit THEN @ \cup {iid} ELSE @,
                  !.turn = IF emit THEN "global" ELSE @]

region_turn(s) ==
    LET iid == s.a[s.ia + 1][1]
        score == s.a[s.ia + 1][2]
        emit == iid \notin s.seen /\ region_passes(s, iid)
    IN  [s EXCEPT !.ia = @ + 1,
                  !.out = IF emit THEN Append(@, <<iid, score, "region">>) ELSE @,
                  !.seen = IF emit THEN @ \cup {iid} ELSE @,
                  !.turn = "global"]

\* elif turn == "global" and ib < len(b)
global_turn_guard(s) == s.turn = "global" /\ s.ib < Len(s.b)

\* (a variant that emits without looking at seen)
take_global_unseen(s) ==
    LET iid == s.b[s.ib + 1][1]
        score == s.b[s.ib + 1][2]
    IN  [s EXCEPT !.ib = @ + 1,
                  !.out = Append(@, <<iid, score, "global">>),
                  !.seen = @ \cup {iid}]

\* consuming the next global entry (the global turn and the backfill loop body)
take_global(s) ==
    LET iid == s.b[s.ib + 1][1]
        score == s.b[s.ib + 1][2]
        emit == iid \notin s.seen
    IN  [s EXCEPT !.ib = @ + 1,
                  !.out = IF emit THEN Append(@, <<iid, score, "global">>) ELSE @,
                  !.seen = IF emit THEN @ \cup {iid} ELSE @]

global_turn(s) == [take_global(s) EXCEPT !.turn = "region"]

\* (a variant that backfills as soon as the turn cannot be served)
region_spent_always(s) == TRUE

\* ia >= len(a) or all(region_norm.get(x[0], 0.0) < threshold for x in a[ia:])
region_spent(s) ==
    \/ s.ia >= Len(s.a)
    \/ \A k \in (s.ia + 1)..Len(s.a) : ~region_passes(s, s.a[k][1])

\* (a variant that is off by one)
backfill_cond_inclusive(s) == Len(s.out) <= s.top_n /\ s.ib < Len(s.b)

\* the condition of the inner while
backfill_cond(s) == Len(s.out) < s.top_n /\ s.ib < Len(s.b)

\* one step of the run
interleave_step(s) ==
    IF s.pc = "loop" THEN
        IF ~loop_cond(s) THEN [s EXCEPT !.pc = "done"]
        ELSE IF region_turn_guard(s) THEN region_turn(s)
        ELSE IF global_turn_guard(s) THEN global_turn(s)
        ELSE IF region_spent(s) THEN [s EXCEPT !.pc = "backfill"]
        ELSE [s EXCEPT !.turn = "region"]
    ELSE IF s.pc = "backfill" THEN
        IF backfill_cond(s) THEN take_global(s) ELSE [s EXCEPT !.pc = "done"]
    ELSE s

RECURSIVE interleave_run(_)
interleave_run(s) ==
    IF s.pc = "done" THEN s
    ELSE Bind(interleave_step(s), LAMBDA t : interleave_run(t))

interleave_pairs(a, b, region_norm, threshold, top_n) ==
    Bind(interleave_start(a, b, region_norm, threshold, top_n),
         LAMBDA s : interleave_run(s)).out

----------------------------------------------------------------------------
(* Python values: None, insertion-ordered dicts, stable sorts              *)

None == [none |-> TRUE]

RatAdd(x, y) == Rat(x.num * y.den + y.num * x.den, x.den * y.den)
RatSub(x, y) == Rat(x.num * y.den - y.num * x.den, x.den * y.den)
RatMul(x, y) == Rat(x.num * y.num, x.den * y.den)

\* A dict is the sequence of its <<key, value>> items in insertion order.
DictKeys(d) == {d[k][1] : k \in 1..Len(d)}
DictHas(d, key) == key \in DictKeys(d)
DictGet(d, key, default) ==
    IF DictHas(d, key)
    THEN d[CHOOSE k \in 1..Len(d) : d[k][1] = key][2]
    ELSE default
\* d[key] = value: a new key goes last, an old key keeps its place
DictSet(d, key, value) ==
    IF DictHas(d, key)
    THEN [k \in 1..Len(d) |-> IF d[k][1] = key THEN <<key, value>> ELSE d[k]]
    ELSE Append(d, <<key, value>>)

Min(S) == CHOOSE x \in S : \A y \in S : x <= y
Max(S) == CHOOSE x \in S : \A y \in S : y <= x

\* sorted(): a stable sort of the list s (a value); Before(x, y) says that x
\* must come before y.  Entry k goes in front of the first entry it must
\* come before, behind the entries it ties with.
SortValue(s, Before(_, _)) ==
    LET Insert(sorted, e) ==
            LET p == Min({q \in 1..Len(sorted) : Before(e, sorted[q])}
                         \cup {Len(sorted) + 1})
            IN  SubSeq(sorted, 1, p - 1) \o <<e>> \o SubSeq(sorted, p, Len(sorted))
        RECURSIVE Sort(_, _)
        Sort(k, sorted) ==
            IF k > Len(s) THEN sorted
            ELSE Bind(Insert(sorted, s[k]), LAMBDA t : Sort(k + 1, t))
    IN  Sort(1, <<>>)

StableSort(s, Before(_, _)) == Bind(s, LAMBDA v : SortValue(v, Before))

\* [x for x in s if keep(x)] for a list s (a value)
FilterValue(s, keep(_)) ==
    LET kept == {k \in 1..Len(s) : keep(s[k])}
        nth(j) == CHOOSE k \in kept : Cardinality({i \in kept : i <= k}) = j
    IN  [j \in 1..Cardinality(kept) |-> s[nth(j)]]

Filter(s, keep(_)) == Bind(s, LAMBDA v : FilterValue(v, keep))

----------------------------------------------------------------------------
(* Normalizers and the blend weight                                        *)

\* recommend.minmax_norm(vals), vals a list of (iid, v): a dict iid -> [0, 1],
\* here a function; a repeated iid keeps the value of its last entry.
minmax_norm(vals) ==
    IF vals = <<>> THEN <<>>
    ELSE
        LET vs == {vals[k][2] : k \in 1..Len(vals)}
            min_v == Min(vs)
            max_v == Max(vs)
            last(iid) == vals[Max({k \in 1..Len(vals) : vals[k][1] = iid})][2]
        IN  IF max_v = min_v
            THEN [iid \in Ids(vals) |-> One]
            ELSE [iid \in Ids(vals) |-> Rat(last(iid) - min_v, max_v - min_v)]

\* _normalize_rule_scores(rules_dict): dict -> dict
_normalize_rule_scores(rules_dict) ==
    IF rules_dict = <<>> THEN <<>>
    ELSE
        LET vals == {rules_dict[k][2] : k \in 1..Len(rules_dict)}
            mn == Min(vals)
            mx == Max(vals)
        IN  IF mx = mn
            THEN [k \in 1..Len(rules_dict) |->
                    <<rules_dict[k][1], IF rules_dict[k][2] > 0 THEN One ELSE Zero>>]
            ELSE [k \in 1..Len(rules_dict) |->
                    <<rules_dict[k][1], Rat(rules_dict[k][2] - mn, mx - mn)>>]

\* num / (span + 1e-9), kept symbolically; 0 / (span + 1e-9) is 0.0
EpsZero == [num |-> 0, span |-> 0]
EpsQuot(num, span) == IF num = 0 THEN EpsZero ELSE [num |-> num, span |-> span]

\* recommend.minmax_dict(d): dict -> dict, (v - min) / (max - min + 1e-9)
minmax_dict_value(d) ==
    IF d = <<>> THEN <<>>
    ELSE
        LET vals == {d[k][2] : k \in 1..Len(d)}
            min_v == Min(vals)
            max_v == Max(vals)
        IN  [k \in 1..Len(d) |-> <<d[k][1], EpsQuot(d[k][2] - min_v, max_v - min_v)>>]

minmax_dict(d) == Bind(d, LAMBDA v : minmax_dict_value(v))

\* c of _adaptive_alpha (its default) and c of recommend
c_default == 3
c_inline == 3

\* _adaptive_alpha(basket_size, c)
_adaptive_alpha(basket_size, c) ==
    IF basket_size <= 0 THEN Zero ELSE Rat(basket_size, basket_size + c)

\* (a variant that divides as integers do)
inline_alpha_floor(basket_size) ==
    RatMin(One, RatMax(Zero, Rat(basket_size \div (basket_size + c_inline), 1)))

\* alpha = min(1.0, max(0.0, len(self.basket) / (len(self.basket) + c)))
inline_alpha(basket_size) ==
    RatMin(One, RatMax(Zero, Rat(basket_size, basket_size + c_inline)))

\* The value alpha * rn + (1 - alpha) * pn with rn, pn of the form
\* num / (span + e), e = 1e-9, is a power series in e:
\*   num / (span + e) = (num / span) * (1 - e/span + e^2/span^2 - ...).
\* eps_coeff(q, k) is the coefficient of e^k in it.  Two such values differ by
\* a rational function of e whose numerator has degree <= 3, and for the small
\* integers of this model their order is the lexicographic order of the
\* coefficients of e^0 .. e^3.
RECURSIVE Pow(_, _)
Pow(x, k) == IF k = 0 THEN 1 ELSE x * Pow(x, k - 1)

eps_coeff(q, k) ==
    IF q.num = 0 THEN Zero
    ELSE Rat((IF k % 2 = 0 THEN 1 ELSE -1) * q.num, Pow(q.span, k + 1))

\* final_score = alpha * rn + (1 - alpha) * pn, kept as its three parts
final_score(alpha, rn, pn) == [alpha |-> alpha, rn |-> rn, pn |-> pn]

final_coeff(f, k) ==
    RatAdd(RatMul(f.alpha, eps_coeff(f.rn, k)),
           RatMul(RatSub(One, f.alpha), eps_coeff(f.pn, k)))

RECURSIVE final_cmp_from(_, _, _)
final_cmp_from(f, g, k) ==
    IF k > 3 THEN 0
    ELSE IF RatLess(final_coeff(f, k), final_coeff(g, k)) THEN -1
    ELSE IF RatLess(final_coeff(g, k), final_coeff(f, k)) THEN 1
    ELSE final_cmp_from(f, g, k + 1)

\* -1, 0, 1 as the value of f is below, equal to, above the value of g
final_cmp(f, g) == final_cmp_from(f, g, 0)

----------------------------------------------------------------------------
(* The storage collaborator.  A source src is a record:                    *)
(*   item_popularity  the rows [item_id, region, count] in table order,    *)
(*   rules            the rows [antecedent, consequent_key, score], the    *)
(*                    antecedent as the set of its ids and the consequent  *)
(*                    key as the list of the ids of its text,              *)
(*   product_map      item_id -> description,                              *)
(*   honours_exclude  FALSE for a source that returns rows whatever the    *)
(*                    exclusion list says,                                 *)
(*   pop_up, rules_up FALSE when the query fails (psycopg2 raises).        *)
(* ORDER BY is taken to be stable on the table order.                      *)

\* SELECT item_id, count FROM item_popularity WHERE region = %s
\*   AND NOT (item_id = ANY(%s)) ORDER BY count DESC LIMIT %s
pop_query(src, reg, exclude_ids, limit) ==
    LET hit(r) == r.region = reg /\ (src.honours_exclude => r.item_id \notin exclude_ids)
        before(x, y) == x.count > y.count
    IN  Bind(Take(StableSort(Filter(src.item_popularity, hit), before), limit),
             LAMBDA rows : [k \in 1..Len(rows) |-> <<rows[k].item_id, rows[k].count>>])

\* SELECT consequent_key, confidence, lift, score FROM rules
\*   WHERE string_to_array(antecedent_key, ',') <@ %s ORDER BY score DESC LIMIT %s
\* (confidence and lift are never read and are left out)
rule_query(src, basket_strs, fetch_limit) ==
    LET hit(r) == r.antecedent \subseteq basket_strs
        before(x, y) == x.score > y.score
    IN  Bind(Take(StableSort(Filter(src.rules, hit), before), fetch_limit),
             LAMBDA rows : [k \in 1..Len(rows) |-> <<rows[k].consequent_key, rows[k].score>>])

\* The outcome of a call that may raise: [ok, value].
Ok(v) == [ok |-> TRUE, value |-> v]
Raised == [ok |-> FALSE, value |-> <<>>]

\* the rows of one query with their origin
tagged(rows, tag) == [k \in 1..Len(rows) |-> <<rows[k][1], rows[k][2], tag>>]

\* _fetch_popularity(self, top_n_region, top_n_global, exclude_ids)
_fetch_popularity(self, src, top_n_region, top_n_global, exclude_ids) ==
    IF ~src.pop_up THEN Raised
    ELSE
        Bind(pop_query(src, self.region, exclude_ids, top_n_region * 2), LAMBDA region_rows :
        Bind(pop_query(src, "GLOBAL", exclude_ids, top_n_global * 2), LAMBDA global_rows :
        Ok(tagged(region_rows, "region") \o tagged(global_rows, "global"))))

\* max(recs.get(c, 0), score)
rule_strength(recs, c, score) ==
    IF DictGet(recs, c, 0) > score THEN DictGet(recs, c, 0) ELSE score

\* the loop of _fetch_rules over the fetched rows (a value): the dict recs
rules_fold(rows, basket_ids) ==
    LET basket_set == basket_ids
        update(recs, row) ==
            LET cons_str == row[1]
                score == row[2]
                cons_items == {cons_str[k] : k \in 1..Len(cons_str)}
                \* list(cons_items)[0]: the item of a single-item consequent
                c == CHOOSE x \in cons_items : TRUE
            IN  IF cons_items \cap basket_set # {}
                THEN recs
                ELSE DictSet(recs, c, rule_strength(recs, c, score))
        RECURSIVE Fold(_, _)
        Fold(k, recs) ==
            IF k > Len(rows) THEN recs
            ELSE Bind(update(recs, rows[k]), LAMBDA t : Fold(k + 1, t))
    IN  Fold(1, <<>>)

\* _fetch_rules(self, basket_ids, fetch_limit)
_fetch_rules(src, basket_ids, fetch_limit) ==
    IF basket_ids = {} THEN Ok(<<>>)
    ELSE IF ~src.rules_up THEN Raised
    ELSE Bind(rule_query(src, basket_ids, fetch_limit),
              LAMBDA rows : Ok(rules_fold(rows, basket_ids)))

----------------------------------------------------------------------------
(* HybridRecommender.  self is the record [basket, region, id_to_item]; a  *)
(* method is an operator from self and its arguments to a record           *)
(*   [status, result, self, fetches]:                                      *)
(* "ok" with the returned list, or "error" when a fetch raised, the engine *)
(* as the call leaves it, and the fetches the call issued, in order.       *)

Returned(self, result, fetches) ==
    [status |-> "ok", result |-> result, self |-> self, fetches |-> fetches]
Failed(self, fetches) ==
    [status |-> "error", result |-> <<>>, self |-> self, fetches |-> fetches]

\* self.id_to_item.get(iid, f"<unknown:{iid}>")
description(self, iid) ==
    Get(self.id_to_item, iid, "<unknown:" \o ToString(iid) \o ">")

\* [(iid, score) for (iid, score, src) in pop_all if src == tag]
rows_of(pop_all, tag) ==
    LET keep(r) == r[3] = tag
    IN  Bind(Filter(pop_all, keep),
             LAMBDA rows : [k \in 1..Len(rows) |-> <<rows[k][1], rows[k][2]>>])

\* the inclusion threshold recommend passes to interleave_pairs: 0.2
threshold_cold == Rat(1, 5)

\* the records of the cold start, one for each entry of pop[:top_n]
cold_results(self, pop, region_norm, global_norm) ==
    [k \in 1..Len(pop) |->
        [item_id |-> pop[k][1],
         description |-> description(self, pop[k][1]),
         region_score |-> IF pop[k][3] = "region"
                          THEN Get(region_norm, pop[k][1], None) ELSE None,
         global_score |-> IF pop[k][3] = "global"
                          THEN Get(global_norm, pop[k][1], None) ELSE None,
         source |-> pop[k][3]]]

\* Case A of recommend: the basket is empty
cold_start(self, src, top_n) ==
    LET exclude == self.basket
        fetches == <<[fetch |-> "popularity", exclude_ids |-> exclude]>>
    IN  Bind(_fetch_popularity(self, src, top_n, top_n, exclude), LAMBDA pop_all :
        IF ~pop_all.ok THEN Failed(self, fetches)
        ELSE
        Bind(rows_of(pop_all.value, "region"), LAMBDA pop_region :
        Bind(rows_of(pop_all.value, "global"), LAMBDA pop_global :
        Bind(minmax_norm(pop_region), LAMBDA region_norm :
        Bind(minmax_norm(pop_global), LAMBDA global_norm :
        Bind(interleave_pairs(pop_region, pop_global, region_norm,
                              threshold_cold, top_n), LAMBDA pop :
        Returned(self, cold_results(self, Take(pop, top_n), region_norm, global_norm),
                 fetches)))))))

\* a candidate's components: {"rule": s}, {"pop": n} or both
OnlyRule(score) == [has_rule |-> TRUE, rule |-> score, has_pop |-> FALSE, pop |-> 0]
NoComponent == [has_rule |-> FALSE, rule |-> 0, has_pop |-> FALSE, pop |-> 0]

\* if iid not in self.basket (the rule loop and the popularity loop)
rule_candidate_ok(self, iid) == iid \notin self.basket

\* (a variant that trusts the source's exclusion)
pop_candidate_any(self, iid) == TRUE

pop_candidate_ok(self, iid) == iid \notin self.basket

\* for iid, score in ranked_rules: ... candidate_scores[iid] = {"rule": score}
collect_rules(self, ranked_rules) ==
    LET update(cs, item) ==
            IF rule_candidate_ok(self, item[1])
            THEN DictSet(cs, item[1], OnlyRule(item[2]))
            ELSE cs
        RECURSIVE Fold(_, _)
        Fold(k, cs) ==
            IF k > Len(ranked_rules) THEN cs
            ELSE Bind(update(cs, ranked_rules[k]), LAMBDA t : Fold(k + 1, t))
    IN  Fold(1, <<>>)

\* (a variant that keeps the first count an item gets)
collect_pop_keep_first(self, pop, candidate_scores) ==
    LET update(cs, row) ==
            IF pop_candidate_ok(self, row[1]) /\ ~DictGet(cs, row[1], NoComponent).has_pop
            THEN DictSet(cs, row[1],
                         [DictGet(cs, row[1], NoComponent) EXCEPT
                             !.has_pop = TRUE, !.pop = row[2]])
            ELSE cs
        RECURSIVE Fold(_, _)
        Fold(k, cs) ==
            IF k > Len(pop) THEN cs
            ELSE Bind(update(cs, pop[k]), LAMBDA t : Fold(k + 1, t))
    IN  Fold(1, candidate_scores)

\* for iid, score, src in pop: ... candidate_scores[iid]["pop"] = score
collect_pop(self, pop, candidate_scores) ==
    LET update(cs, row) ==
            IF pop_candidate_ok(self, row[1])
            THEN DictSet(cs, row[1],
                         [DictGet(cs, row[1], NoComponent) EXCEPT
                             !.has_pop = TRUE, !.pop = row[2]])
            ELSE cs
        RECURSIVE Fold(_, _)
        Fold(k, cs) ==
            IF k > Len(pop) THEN cs
            ELSE Bind(update(cs, pop[k]), LAMBDA t : Fold(k + 1, t))
    IN  Fold(1, candidate_scores)

\* (a variant that grows the basket in place: self.basket.update(...))
exclude_more_in_place(self, keys) ==
    [ids |-> self.basket \cup keys, self |-> [self EXCEPT !.basket = @ \cup keys]]

\* (a variant that excludes the basket alone)
exclude_more_basket_only(self, keys) == [ids |-> self.basket, self |-> self]

\* exclude_more = list(self.basket.union(set(candidate_scores.keys())))
exclude_more(self, keys) == [ids |-> self.basket \cup keys, self |-> self]

\* {iid: s["rule"] for iid, s in candidate_scores.items() if "rule" in s}
component_dict(candidate_scores, has(_), val(_)) ==
    LET keep(item) == has(item[2])
    IN  Bind(Filter(candidate_scores, keep),
             LAMBDA items : [k \in 1..Len(items) |-> <<items[k][1], val(items[k][2])>>])

\* the records of the warm start, one for each candidate, in dict order
warm_results(self, candidate_scores, rule_norm, pop_norm, alpha) ==
    [k \in 1..Len(candidate_scores) |->
        LET iid == candidate_scores[k][1]
            comp == candidate_scores[k][2]
            rn == DictGet(rule_norm, iid, EpsZero)
            pn == DictGet(pop_norm, iid, EpsZero)
        IN  [item_id |-> iid,
             description |-> description(self, iid),
             final_score |-> final_score(alpha, rn, pn),
             rule_norm |-> IF comp.has_rule THEN rn ELSE None,
             pop_norm |-> IF comp.has_pop THEN pn ELSE None,
             source |-> IF comp.has_rule THEN "rules" ELSE "popularity"]]

\* Case B of recommend up to the final scoring: the records of all
\* candidates before the sort, [ok, self, fetches, results]
warm_scored(self, src, top_n) ==
    LET f1 == <<[fetch |-> "rules", basket_ids |-> self.basket]>>
        by_score(x, y) == x[2] > y[2]
        has_rule(comp) == comp.has_rule
        rule_of(comp) == comp.rule
        has_pop(comp) == comp.has_pop
        pop_of(comp) == comp.pop
        raised(slf, f) == [ok |-> FALSE, self |-> slf, fetches |-> f, results |-> <<>>]
    IN  Bind(_fetch_rules(src, self.basket, top_n * 8), LAMBDA rules :
        IF ~rules.ok THEN raised(self, f1)
        ELSE
        Bind(StableSort(rules.value, by_score), LAMBDA ranked_rules :
        Bind(collect_rules(self, ranked_rules), LAMBDA cs1 :
        Bind(exclude_more(self, DictKeys(cs1)), LAMBDA em :
        Bind(Append(f1, [fetch |-> "popularity", exclude_ids |-> em.ids]), LAMBDA f2 :
        Bind(_fetch_popularity(em.self, src, top_n, top_n, em.ids), LAMBDA pop :
        IF ~pop.ok THEN raised(em.self, f2)
        ELSE
        Bind(collect_pop(em.self, pop.value, cs1), LAMBDA candidate_scores :
        Bind(minmax_dict(component_dict(candidate_scores, has_rule, rule_of)), LAMBDA rule_norm :
        Bind(minmax_dict(component_dict(candidate_scores, has_pop, pop_of)), LAMBDA pop_norm :
        Bind(inline_alpha(Cardinality(em.self.basket)), LAMBDA alpha :
        [ok |-> TRUE, self |-> em.self, fetches |-> f2,
         results |-> warm_results(em.self, candidate_scores, rule_norm, pop_norm,
                                  alpha)]))))))))))

\* (a variant that truncates without sorting)
rank_results_unsorted(results, top_n) == Take(results, top_n)

\* sorted(results, key=lambda x: x["final_score"], reverse=True)[:top_n]
rank_results(results, top_n) ==
    LET by_final(x, y) == final_cmp(x.final_score, y.final_score) = 1
    IN  Take(StableSort(results, by_final), top_n)

\* Case B of recommend: the basket is not empty
warm_start(self, src, top_n) ==
    Bind(warm_scored(self, src, top_n), LAMBDA w :
        IF ~w.ok THEN Failed(w.self, w.fetches)
        ELSE Returned(w.self, rank_results(w.results, top_n), w.fetches))

\* (a variant that always takes Case A)
recommend_cold_always(self, src, top_n) == cold_start(self, src, top_n)

\* recommend(self, top_n)
recommend(self, src, top_n) ==
    IF self.basket = {} THEN cold_start(self, src, top_n)
    ELSE warm_start(self, src, top_n)

\* set_region(self, region)
set_region(self, r) == [self EXCEPT !.region = r]

\* reset_basket(self)
reset_basket(self) == [self EXCEPT !.basket = {}]

\* (a variant that computes the recommendations before the update)
add_item_stale(self, src, item, top_n) ==
    LET r == recommend(self, src, top_n)
    IN  [r EXCEPT !.self = [r.self EXCEPT !.basket = @ \cup {item}]]

\* add_item(self, item, top_n)
add_item(self, src, item, top_n) ==
    recommend([self EXCEPT !.basket = @ \cup {item}], src, top_n)

\* remove_item(self, item, top_n)
remove_item(self, src, item, top_n) ==
    recommend([self EXCEPT !.basket = @ \ {item}], src, top_n)

----------------------------------------------------------------------------
(* Specification SpecInterleave: one run of interleave_pairs, step by step, *)
(* on every input within the bounds.                                       *)

\* Values of region_norm and of threshold (0.2 is the engine's threshold).
NormVals == {Rat(1, 10), Rat(1, 5), Rat(1, 1)}
Thresholds == {Rat(1, 5), Rat(1, 2)}

\* The score of a list entry is payload carried to the output unread; the
\* entry at position k for item i carries 10 * k + i.
payload(k, i) == 10 * k + i

IdLists(maxlen) == UNION {[1..k -> ItemIds] : k \in 0..maxlen}
RowList(ids) == [k \in 1..Len(ids) |-> <<ids[k], payload(k, ids[k])>>]

\* region_norm is a dict: a key may be missing
RegionNorms == UNION {[D -> NormVals] : D \in SUBSET ItemIds}

NoEngine ==
    /\ basket = {}
    /\ region = "GLOBAL"
    /\ id_to_item = <<>>
    /\ db = <<>>
    /\ lastCall = <<>>
    /\ session = <<>>

NoPure == pf = <<>>

NoSession == session = <<>>

NoInterleave == il = <<>>

engineVars == <<basket, region, id_to_item, db, lastCall, session>>

InitInterleave ==
    /\ \E ida \in IdLists(MaxLenA), idb \in IdLists(MaxLenB), rn \in RegionNorms,
          th \in Thresholds, n \in 0..MaxTopN :
          il = interleave_start(RowList(ida), RowList(idb), rn, th, n)
    /\ NoEngine
    /\ NoPure

ILRegionTurn ==
    /\ il.pc = "loop" /\ loop_cond(il) /\ region_turn_guard(il)
    /\ il' = region_turn(il)
    /\ UNCHANGED <<engineVars, pf>>

ILGlobalTurn ==
    /\ il.pc = "loop" /\ loop_cond(il)
    /\ ~region_turn_guard(il) /\ global_turn_guard(il)
    /\ il' = global_turn(il)
    /\ UNCHANGED <<engineVars, pf>>

ILToBackfill ==
    /\ il.pc = "loop" /\ loop_cond(il)
    /\ ~region_turn_guard(il) /\ ~global_turn_guard(il) /\ region_spent(il)
    /\ il' = [il EXCEPT !.pc = "backfill"]
    /\ UNCHANGED <<engineVars, pf>>

ILBackToRegion ==
    /\ il.pc = "loop" /\ loop_cond(il)
    /\ ~region_turn_guard(il) /\ ~global_turn_guard(il) /\ ~region_spent(il)
    /\ il' = [il EXCEPT !.turn = "region"]
    /\ UNCHANGED <<engineVars, pf>>

ILBackfillTake ==
    /\ il.pc = "backfill" /\ backfill_cond(il)
    /\ il' = take_global(il)
    /\ UNCHANGED <<engineVars, pf>>

ILBreak ==
    /\ il.pc = "backfill" /\ ~backfill_cond(il)
    /\ il' = [il EXCEPT !.pc = "done"]
    /\ UNCHANGED <<engineVars, pf>>

ILReturn ==
    /\ il.pc = "loop" /\ ~loop_cond(il)
    /\ il' = [il EXCEPT !.pc = "done"]
    /\ UNCHANGED <<engineVars, pf>>

NextInterleave ==
    \/ ILRegionTurn
    \/ ILGlobalTurn
    \/ ILToBackfill
    \/ ILBackToRegion
    \/ ILBackfillTake
    \/ ILBreak
    \/ ILReturn

SpecInterleave == InitInterleave /\ [][NextInterleave]_vars

\* The run is one sequential call: a step that can be taken is taken.
SpecInterleaveLive == SpecInterleave /\ WF_vars(NextInterleave)

\* every step of the run is the step of interleave_step
StepAgrees == [][NextInterleave => il' = interleave_step(il)]_vars

----------------------------------------------------------------------------
(* Specification Spec: one engine and its storage collaborator.  The data  *)
(* of the collaborator is fixed by Init; whether a fetch fails is decided  *)
(* anew in every call.  top_n is at least 1 here; interleave_pairs is run  *)
(* with top_n = 0 under SpecInterleave.                                    *)

Regions == {"GLOBAL", "EU"}

PopRow(i, r, n) == [item_id |-> i, region |-> r, count |-> n]
RuleRow(ante, cons, sc) == [antecedent |-> ante, consequent_key |-> <<cons>>, score |-> sc]

\* rows of item_popularity for the region EU, in table order
RegionTables ==
    { <<PopRow(2, "EU", 3), PopRow(1, "EU", 5), PopRow(3, "EU", 1)>>,
      <<PopRow(2, "EU", 4), PopRow(3, "EU", 4)>> }

\* rows of item_popularity for GLOBAL
GlobalTables ==
    { <<PopRow(1, "GLOBAL", 5), PopRow(3, "GLOBAL", 8), PopRow(2, "GLOBAL", 1)>>,
      <<PopRow(1, "GLOBAL", 0), PopRow(2, "GLOBAL", 0)>>,
      <<>> }

\* rows of rules: single-item consequents, some shared, some inside a basket
RuleTables ==
    { <<RuleRow({1}, 3, 4), RuleRow({1}, 2, 9), RuleRow({1, 2}, 3, 6), RuleRow({2}, 1, 5)>>,
      <<RuleRow({3}, 1, 2), RuleRow({2}, 1, 2), RuleRow({3}, 2, 0)>> }

\* product_map: item 3 and above have no description
ProductMap == [i \in {1, 2} |-> IF i = 1 THEN "mug" ELSE "tea"]

Databases ==
    {[item_popularity |-> rt \o gt, rules |-> ru, product_map |-> ProductMap,
      honours_exclude |-> h] :
        rt \in RegionTables, gt \in GlobalTables, ru \in RuleTables, h \in BOOLEAN}

\* what may go wrong in one call: nothing, the rule query, the popularity query
Failures == {"none", "rules", "popularity"}

\* the collaborator as one call sees it
Source(d, failure) ==
    [item_popularity |-> d.item_popularity, rules |-> d.rules,
     product_map |-> d.product_map, honours_exclude |-> d.honours_exclude,
     pop_up |-> failure # "popularity", rules_up |-> failure # "rules"]

Self == [basket |-> basket, region |-> region, id_to_item |-> id_to_item]

\* The record of a call: the operation and its arguments, its outcome, the
\* engine as the call found it, the fetches it issued, and whether it is a
\* recommend(n) that returned right after a recommend(n) that returned.
CallRecord(op, item, n, r, prev) ==
    [op |-> op, item |-> item, top_n |-> n, status |-> r.status, result |-> r.result,
     before |-> Self, fetches |-> r.fetches,
     repeat |-> /\ op = "recommend" /\ r.status = "ok"
                /\ prev.op = "recommend" /\ prev.status = "ok" /\ prev.top_n = n]

NoCall == [op |-> "none", status |-> "ok", top_n |-> 0]

\* __init__: region = "GLOBAL", an empty basket, the catalog loaded
Init ==
    /\ db \in Databases
    /\ basket = {}
    /\ region = "GLOBAL"
    /\ id_to_item = db.product_map
    /\ lastCall = CallRecord("init", 0, 0, Returned(Self, <<>>, <<>>), NoCall)
    /\ NoInterleave
    /\ NoPure
    /\ NoSession

\* the engine after a call, and the record of the call
Call(op, item, n, outcome) ==
    \E r \in {outcome} :
        /\ basket' = r.self.basket
        /\ region' = r.self.region
        /\ id_to_item' = r.self.id_to_item
        /\ lastCall' = CallRecord(op, item, n, r, lastCall)
        /\ UNCHANGED <<db, il, pf, session>>

SetRegion ==
    \E r \in Regions : Call("set_region", 0, 0, Returned(set_region(Self, r), <<>>, <<>>))

ResetBasket ==
    Call("reset_basket", 0, 0, Returned(reset_basket(Self), <<>>, <<>>))

AddItem ==
    \E item \in ItemIds, n \in 1..MaxTopN, failure \in Failures :
        Call("add_item", item, n, add_item(Self, Source(db, failure), item, n))

RemoveItem ==
    \E item \in ItemIds, n \in 1..MaxTopN, failure \in Failures :
        Call("remove_item", item, n, remove_item(Self, Source(db, failure), item, n))

Recommend ==
    \E n \in 1..MaxTopN, failure \in Failures :
        Call("recommend", 0, n, recommend(Self, Source(db, failure), n))

Next ==
    \/ SetRegion
    \/ ResetBasket
    \/ AddItem
    \/ RemoveItem
    \/ Recommend

Spec == Init /\ [][Next]_vars

----------------------------------------------------------------------------
(* Claims about interleave_pairs, checked under SpecInterleave             *)

NoDuplicateIds(rows) ==
    \A i, j \in 1..Len(rows) : i # j => rows[i][1] # rows[j][1]

\* C2: at every step of interleave_pairs and on return, the output holds at
\* most top_n entries and no item id occurs in it twice.
C2_BoundedDistinct ==
    /\ Len(il.out) <= il.top_n
    /\ NoDuplicateIds(il.out)

\* a finished run that filled the output although an id is repeated inside the
\* region list and the lists share an id
C2_Witness ==
    /\ il.pc = "done"
    /\ il.top_n = MaxTopN /\ Len(il.out) = il.top_n
    /\ ~NoDuplicateIds(il.a)
    /\ Ids(il.a) \cap Ids(il.b) # {}
    /\ \E k \in 1..Len(il.out) : il.out[k][3] = "region"

\* C3: every entry emitted with tag "region" has a regional normalized score
\* >= threshold (a missing id counts as 0.0); every other entry is tagged
\* "global" and is an entry of the global list, so an id whose regional score
\* is below the threshold appears only so.
C3_RegionAboveThreshold ==
    \A k \in 1..Len(il.out) :
        LET e == il.out[k] IN
        /\ e[3] \in {"region", "global"}
        /\ e[3] = "region" =>
              /\ RatLeq(il.threshold, Get(il.region_norm, e[1], Zero))
              /\ \E j \in 1..Len(il.a) : il.a[j] = <<e[1], e[2]>>
        /\ RatLess(Get(il.region_norm, e[1], Zero), il.threshold) =>
              /\ e[3] = "global"
              /\ \E j \in 1..Len(il.b) : il.b[j] = <<e[1], e[2]>>

\* a finished run whose output holds a region entry and, tagged global, an id
\* of the region list whose regional score is below the threshold
C3_Witness ==
    /\ il.pc = "done"
    /\ \E k \in 1..Len(il.out) : il.out[k][3] = "region"
    /\ \E k \in 1..Len(il.out) :
          /\ il.out[k][1] \in Ids(il.a)
          /\ RatLess(Get(il.region_norm, il.out[k][1], Zero), il.threshold)
    /\ \E i \in Ids(il.a) : i \notin DOMAIN il.region_norm

\* C4: with an empty region list every entry of the output is tagged
\* "global", and on return the output is the first top_n entries of the
\* global list in their order (for a global list without repeated ids).
C4_EmptyRegionBackfill ==
    il.a = <<>> =>
        /\ \A k \in 1..Len(il.out) : il.out[k][3] = "global"
        /\ (il.pc = "done" /\ NoDuplicateIds(il.b)) =>
              il.out = [k \in 1..Len(Take(il.b, il.top_n)) |->
                            <<il.b[k][1], il.b[k][2], "global">>]

\* a finished run on an empty region list that truncated the global list
C4_Witness ==
    /\ il.pc = "done"
    /\ il.a = <<>>
    /\ NoDuplicateIds(il.b)
    /\ 0 < il.top_n /\ il.top_n < Len(il.b)
    /\ Len(il.out) = il.top_n

----------------------------------------------------------------------------
(* Claims about the engine, checked under Spec                             *)

IsQuery(call) == call.op \in {"recommend", "add_item", "remove_item"}

\* C1: no record returned by recommend, directly or through add_item or
\* remove_item, has an item_id that is in the basket, in cold start and in
\* warm start, whatever rows the sources return.
C1_BasketExcluded ==
    \A k \in 1..Len(lastCall.result) : lastCall.result[k].item_id \notin basket

\* a warm start that returned records although the popularity source sent rows
\* of basket items (it ignores the exclusion list) and a fetched rule has its
\* consequent in the basket
C1_Witness ==
    /\ IsQuery(lastCall) /\ lastCall.status = "ok"
    /\ basket # {}
    /\ Len(lastCall.result) > 0
    /\ ~db.honours_exclude
    /\ \E k \in 1..Len(db.item_popularity) :
          /\ db.item_popularity[k].item_id \in basket
          /\ db.item_popularity[k].region \in {region, "GLOBAL"}
    /\ \E k \in 1..Len(db.rules) :
          /\ db.rules[k].antecedent \subseteq basket
          /\ db.rules[k].consequent_key[1] \in basket

\* C5: if a popularity or rule fetch fails during recommend, add_item or
\* remove_item, the call ends in an error with no result and the basket and the
\* catalog are as they were before the call started.
C5_FailurePreservesState ==
    (IsQuery(lastCall) /\ lastCall.status = "error") =>
        /\ lastCall.result = <<>>
        /\ basket = lastCall.before.basket
        /\ id_to_item = lastCall.before.id_to_item

\* C6: recommend changes neither the basket, the region nor the catalog, and
\* a recommend(top_n) that returns right after a recommend(top_n) that returned
\* returns the same ordered list of records.
C6_RecommendIdempotent ==
    [][lastCall'.op = "recommend" =>
          /\ basket' = basket
          /\ region' = region
          /\ id_to_item' = id_to_item
          /\ lastCall'.repeat => lastCall'.result = lastCall.result]_vars

\* a warm-start recommend that returned two records right after the same call
C6_Witness ==
    /\ lastCall.op = "recommend"
    /\ lastCall.repeat
    /\ basket # {}
    /\ Len(lastCall.result) >= 2

\* the engine a fresh instance becomes by set_region(r) and add_item(x), x
\* going up through the items of b
RECURSIVE engine_built(_, _, _)
engine_built(b, r, src) ==
    IF b = {}
    THEN set_region([basket |-> {}, region |-> "GLOBAL", id_to_item |-> src.product_map], r)
    ELSE add_item(engine_built(b \ {Max(b)}, r, src), src, Max(b), 1).self

\* C7: add_item(x) and remove_item(x) leave the basket as basket \cup {x} and
\* basket \ {x}, and the list a call returns is the list recommend(top_n)
\* returns on a second engine that reached the same basket and region by
\* set_region and add_item calls alone.
C7_PathIndependent ==
    /\ lastCall.op = "add_item" => basket = lastCall.before.basket \cup {lastCall.item}
    /\ lastCall.op = "remove_item" => basket = lastCall.before.basket \ {lastCall.item}
    /\ (IsQuery(lastCall) /\ lastCall.status = "ok") =>
          lastCall.result =
              recommend(engine_built(basket, region, Source(db, "none")),
                        Source(db, "none"), lastCall.top_n).result

\* a remove_item that took an item out of a basket of at least two, away from
\* the default region, and returned records
C7_Witness ==
    /\ lastCall.op = "remove_item" /\ lastCall.status = "ok"
    /\ lastCall.item \in lastCall.before.basket
    /\ basket # {}
    /\ region # "GLOBAL"
    /\ Len(lastCall.result) > 0

----------------------------------------------------------------------------
(* Specification SpecAlpha: the blend weight as the basket grows and       *)
(* shrinks by one item; pf holds the size, the weight recommend computes   *)
(* inline, the weight of _adaptive_alpha, and the size and weight before.  *)

AlphaState(n, prev_size, prev_inline) ==
    [basket_size |-> n,
     inline |-> inline_alpha(n),
     helper |-> _adaptive_alpha(n, c_default),
     prev_size |-> prev_size,
     prev_inline |-> prev_inline]

InitAlpha ==
    /\ pf = AlphaState(0, 0, inline_alpha(0))
    /\ NoEngine
    /\ NoInterleave

AlphaAdd ==
    /\ pf.basket_size < MaxBasketSize
    /\ pf' = AlphaState(pf.basket_size + 1, pf.basket_size, pf.inline)
    /\ UNCHANGED <<engineVars, il>>

AlphaDiscard ==
    /\ pf.basket_size > 0
    /\ pf' = AlphaState(pf.basket_size - 1, pf.basket_size, pf.inline)
    /\ UNCHANGED <<engineVars, il>>

NextAlpha ==
    \/ AlphaAdd
    \/ AlphaDiscard

SpecAlpha == InitAlpha /\ [][NextAlpha]_vars

\* C8: for a basket of n >= 1 items the weight computed inline in recommend is
\* n / (n + 3), equals the weight of _adaptive_alpha, lies in [0, 1], does not
\* decrease when the basket grows, and is 1/4, 1/2, 3/4 for n = 1, 3, 9.
C8_AdaptiveAlpha ==
    pf.basket_size >= 1 =>
        /\ pf.inline = Rat(pf.basket_size, pf.basket_size + 3)
        /\ pf.inline = pf.helper
        /\ RatLeq(Zero, pf.inline) /\ RatLeq(pf.inline, One)
        /\ (1 <= pf.prev_size /\ pf.prev_size <= pf.basket_size) =>
              RatLeq(pf.prev_inline, pf.inline)
        /\ pf.prev_size >= pf.basket_size => RatLeq(pf.inline, pf.prev_inline)
        /\ pf.basket_size = 1 => pf.inline = Rat(1, 4)
        /\ pf.basket_size = 3 => pf.inline = Rat(1, 2)
        /\ pf.basket_size = 9 => pf.inline = Rat(3, 4)

\* a basket grown from 8 to 9 items
C8_Witness ==
    /\ pf.basket_size = 9 /\ pf.prev_size = 8
    /\ pf.inline = Rat(3, 4)
    /\ RatLess(pf.prev_inline, pf.inline)

----------------------------------------------------------------------------
(* Specification SpecNorm: recommend's minmax_norm and the helper          *)
(* _normalize_rule_scores applied to every list of (iid, count) within the *)
(* bounds.                                                                 *)

CountRows(maxlen) == UNION {[1..k -> ItemIds \X (0..MaxCount)] : k \in 0..maxlen}

\* dict(vals)
DictOf(vals) ==
    LET RECURSIVE Fold(_, _)
        Fold(k, d) ==
            IF k > Len(vals) THEN d
            ELSE Bind(DictSet(d, vals[k][1], vals[k][2]), LAMBDA t : Fold(k + 1, t))
    IN  Fold(1, <<>>)

InitNorm ==
    /\ \E vals \in CountRows(MaxLenA) :
          pf = [vals |-> vals, cold_done |-> FALSE, cold |-> <<>>,
                rule_done |-> FALSE, rule |-> <<>>]
    /\ NoEngine
    /\ NoInterleave

NormCold ==
    /\ ~pf.cold_done
    /\ pf' = [pf EXCEPT !.cold_done = TRUE, !.cold = minmax_norm(pf.vals)]
    /\ UNCHANGED <<engineVars, il>>

NormRule ==
    /\ ~pf.rule_done
    /\ pf' = [pf EXCEPT !.rule_done = TRUE,
                        !.rule = _normalize_rule_scores(DictOf(pf.vals))]
    /\ UNCHANGED <<engineVars, il>>

NextNorm ==
    \/ NormCold
    \/ NormRule

SpecNorm == InitNorm /\ [][NextNorm]_vars

AllCountsAre(vals, v) == vals # <<>> /\ \A k \in 1..Len(vals) : vals[k][2] = v

\* C9: when all counts of a list are equal, recommend's minmax_norm maps every
\* item to 1.0 if the shared count is positive and to 0.0 if it is not; an
\* empty list gives an empty result.
C9_EqualCounts ==
    pf.cold_done =>
        /\ pf.vals = <<>> => pf.cold = <<>>
        /\ \A v \in 0..MaxCount :
              AllCountsAre(pf.vals, v) =>
                  \A iid \in Ids(pf.vals) :
                      pf.cold[iid] = IF v > 0 THEN One ELSE Zero

----------------------------------------------------------------------------
(* Specification SpecRules: the loop of _fetch_rules over every list of    *)
(* fetched rows (single-item consequents, ordered by score descending as   *)
(* the query returns them) and every non-empty basket within the bounds.   *)

ScoreVals == (-1)..MaxScore

RuleRows(maxlen) ==
    {rows \in UNION {[1..k -> {<<<<i>>, sc>> : i \in ItemIds, sc \in ScoreVals}] :
                        k \in 0..maxlen} :
        \A k \in 1..(Len(rows) - 1) : rows[k][2] >= rows[k + 1][2]}

InitRules ==
    /\ \E rows \in RuleRows(MaxLenA), basket_ids \in (SUBSET ItemIds) \ {{}} :
          pf = [rows |-> rows, basket_ids |-> basket_ids, done |-> FALSE, recs |-> <<>>]
    /\ NoEngine
    /\ NoInterleave

RulesFold ==
    /\ ~pf.done
    /\ pf' = [pf EXCEPT !.done = TRUE, !.recs = rules_fold(pf.rows, pf.basket_ids)]
    /\ UNCHANGED <<engineVars, il>>

NextRules == RulesFold

SpecRules == InitRules /\ [][NextRules]_vars

\* C10: the keys of the mapping built by _fetch_rules are exactly the
\* consequent items of the rows whose consequent is not in the basket, and
\* the value of a key is the maximum score over those rows with that consequent.
C10_MaxStrength ==
    pf.done =>
        LET live == {k \in 1..Len(pf.rows) : pf.rows[k][1][1] \notin pf.basket_ids}
        IN  /\ DictKeys(pf.recs) = {pf.rows[k][1][1] : k \in live}
            /\ \A c \in DictKeys(pf.recs) :
                  DictGet(pf.recs, c, 0) =
                      Max({pf.rows[k][2] : k \in {j \in live : pf.rows[j][1][1] = c}})

----------------------------------------------------------------------------
(* Claims about the course of a run of interleave_pairs                    *)

\* the ids that may be emitted: those of the global list and those of the
\* region list whose regional normalized score is >= threshold
Eligible(s) ==
    Ids(s.b) \cup {iid \in Ids(s.a) : RatLeq(s.threshold, Get(s.region_norm, iid, Zero))}

\* C11: every run of interleave_pairs returns, and on return the output holds
\* min(top_n, E) entries, E being the number of distinct eligible ids: it is
\* shorter than top_n only when every eligible id has been emitted.
C11_TerminatesFilled ==
    /\ <>(il.pc = "done")
    /\ [](il.pc = "done" =>
            /\ Len(il.out) = Min({il.top_n, Cardinality(Eligible(il))})
            /\ (Len(il.out) < il.top_n => Ids(il.out) = Eligible(il)))

\* a returned run that went back to the region list after the global list
\* ran out, left a region id below the threshold out, and came out short
C11_Witness ==
    /\ il.pc = "done"
    /\ 0 < Len(il.out) /\ Len(il.out) < il.top_n
    /\ il.ia = Len(il.a) /\ il.ia > il.ib + 1
    /\ Ids(il.a) \ Eligible(il) # {}
    /\ \E k \in 1..Len(il.out) : il.out[k][3] = "region"

\* the run is in its outer loop, the output is below top_n and both lists
\* have unconsumed entries
both_pending(s) ==
    s.pc = "loop" /\ Len(s.out) < s.top_n /\ s.ia < Len(s.a) /\ s.ib < Len(s.b)

\* C12: while both lists have unconsumed entries and the output is below
\* top_n, the entries are consumed in turns region, global, region, ...: the
\* region cursor equals the global cursor on a region turn and exceeds it by
\* one on a global turn, and each step consumes the entry of its turn and
\* passes the turn on, whether or not the entry is emitted.
C12_StrictAlternation ==
    /\ [](both_pending(il) => \/ il.turn = "region" /\ il.ia = il.ib
                              \/ il.turn = "global" /\ il.ia = il.ib + 1)
    /\ [][both_pending(il) =>
             /\ il.turn = "region" =>
                    il'.ia = il.ia + 1 /\ il'.ib = il.ib /\ il'.turn = "global"
             /\ il.turn = "global" =>
                    il'.ib = il.ib + 1 /\ il'.ia = il.ia /\ il'.turn = "region"]_vars

\* the second region turn comes up after a region entry that was not
\* emitted and a global entry that was
C12_Witness ==
    /\ il.pc = "loop" /\ il.turn = "region"
    /\ il.ia = 1 /\ il.ib = 1 /\ Len(il.a) = 2 /\ Len(il.b) = 2
    /\ Len(il.out) = 1 /\ il.out[1][3] = "global" /\ il.top_n = 2

----------------------------------------------------------------------------
(* Claims about the warm start, checked under Spec                         *)

\* the call ran recommend on a basket that was not empty
IsWarm(call) == IsQuery(call) /\ basket # {}

\* the ids the rule fetch of the call returned
RuleCandidates(call) ==
    DictKeys(_fetch_rules(Source(db, "none"), basket, call.top_n * 8).value)

\* C13: a warm-start recommend issues the rule fetch first and the popularity
\* fetch only after the rule fetch has returned, one of each when the call
\* returns; the exclusion list of the popularity fetch is the basket together
\* with every id the rule fetch returned, so that with a source that honours
\* the list a rule candidate has no popularity component.
C13_RuleFetchFirst ==
    IsWarm(lastCall) =>
        LET f == lastCall.fetches IN
        /\ Len(f) \in {1, 2}
        /\ f[1].fetch = "rules" /\ f[1].basket_ids = basket
        /\ Len(f) = 1 => lastCall.status = "error"
        /\ Len(f) = 2 =>
              /\ f[2].fetch = "popularity"
              /\ f[2].exclude_ids = basket \cup RuleCandidates(lastCall)
        /\ lastCall.status = "ok" =>
              /\ Len(f) = 2
              /\ db.honours_exclude =>
                    \A k \in 1..Len(lastCall.result) :
                        lastCall.result[k].item_id \in RuleCandidates(lastCall) =>
                            /\ lastCall.result[k].source = "rules"
                            /\ lastCall.result[k].pop_norm = None

\* a warm start that returned a rule candidate of normalized strength zero
\* which the popularity table lists, and a popularity candidate after it
C13_Witness ==
    /\ IsWarm(lastCall) /\ lastCall.status = "ok"
    /\ db.honours_exclude
    /\ \E k \in 1..Len(lastCall.result) :
          /\ lastCall.result[k].source = "rules"
          /\ lastCall.result[k].rule_norm = EpsZero
          /\ \E j \in 1..Len(db.item_popularity) :
                db.item_popularity[j].item_id = lastCall.result[k].item_id
    /\ \E k \in 1..Len(lastCall.result) : lastCall.result[k].source = "popularity"

\* the records of all candidates of the call's warm start, before the sort
WarmCandidates(call) == warm_scored(Self, Source(db, "none"), call.top_n).results

\* the component a record carries, 0.0 for one it lacks
ComponentOrZero(v) == IF v = None THEN EpsZero ELSE v

\* C14: the list a warm-start recommend(top_n) returns is in non-increasing
\* order of final_score, holds at most top_n records, no item id twice, and
\* no candidate left out scores strictly higher than a record in the list;
\* final_score is alpha * rule_norm + (1 - alpha) * pop_norm, with 0.0 for a
\* component the candidate lacks.
C14_RankedByFinalScore ==
    (IsWarm(lastCall) /\ lastCall.status = "ok") =>
        LET res == lastCall.result
            all == WarmCandidates(lastCall)
            alpha == Rat(Cardinality(basket), Cardinality(basket) + 3)
        IN  /\ Len(res) <= lastCall.top_n
            /\ \A i, j \in 1..Len(res) : i # j => res[i].item_id # res[j].item_id
            /\ \A k \in 1..(Len(res) - 1) :
                  final_cmp(res[k].final_score, res[k + 1].final_score) >= 0
            /\ \A k \in 1..Len(res) :
                  /\ \E c \in 1..Len(all) : all[c] = res[k]
                  /\ res[k].final_score =
                        final_score(alpha, ComponentOrZero(res[k].rule_norm),
                                    ComponentOrZero(res[k].pop_norm))
            /\ \A c \in 1..Len(all) :
                  (\A k \in 1..Len(res) : res[k].item_id # all[c].item_id) =>
                      \A k \in 1..Len(res) :
                          final_cmp(all[c].final_score, res[k].final_score) <= 0

\* a warm start whose best candidate is not the first one collected: the
\* list was cut to top_n and the candidate left out scores strictly lower
C14_Witness ==
    /\ IsWarm(lastCall) /\ lastCall.status = "ok"
    /\ Len(lastCall.result) = lastCall.top_n
    /\ Len(WarmCandidates(lastCall)) > lastCall.top_n
    /\ WarmCandidates(lastCall)[1].item_id # lastCall.result[1].item_id
    /\ final_cmp(lastCall.result[1].final_score,
                 WarmCandidates(lastCall)[1].final_score) = 1

\* C15: recommend takes its mode from the emptiness of the basket alone.  On an
\* empty basket it issues no rule query and every record is tagged "region" or
\* "global" and carries just the score of its tag; on any other basket every
\* record is tagged "rules" if its item has a rule strength and "popularity"
\* if not.
C15_ModeByBasket ==
    IsQuery(lastCall) =>
        LET res == lastCall.result
            f == lastCall.fetches
        IN  /\ basket = {} =>
                  /\ \A i \in 1..Len(f) : f[i].fetch # "rules"
                  /\ \A k \in 1..Len(res) :
                        /\ res[k].source \in {"region", "global"}
                        /\ res[k].source = "region" =>
                              res[k].region_score # None /\ res[k].global_score = None
                        /\ res[k].source = "global" =>
                              res[k].global_score # None /\ res[k].region_score = None
            /\ basket # {} =>
                  \A k \in 1..Len(res) :
                      /\ res[k].source \in {"rules", "popularity"}
                      /\ res[k].source = "rules" <=>
                            res[k].item_id \in RuleCandidates(lastCall)
                      /\ res[k].source = "rules" <=> res[k].rule_norm # None

\* a remove_item that emptied the basket, away from the default region, and
\* returned a record of each cold-start tag
C15_Witness ==
    /\ lastCall.op = "remove_item" /\ lastCall.status = "ok"
    /\ lastCall.before.basket # {} /\ basket = {}
    /\ region # "GLOBAL"
    /\ \E k \in 1..Len(lastCall.result) : lastCall.result[k].source = "region"
    /\ \E k \in 1..Len(lastCall.result) : lastCall.result[k].source = "global"

\* the rows the popularity fetch of the call's warm start returned
PopRows(call) ==
    _fetch_popularity(Self, Source(db, "none"), call.top_n, call.top_n,
                      call.fetches[2].exclude_ids).value

\* the ids of the rows with a tag, and the count of the row of an id
TagIds(rows, tag) == {rows[k][1] : k \in {j \in 1..Len(rows) : rows[j][3] = tag}}
TagCount(rows, tag, iid) ==
    rows[CHOOSE k \in 1..Len(rows) : rows[k][1] = iid /\ rows[k][3] = tag][2]

\* C17: in a warm start, an item the popularity fetch returns both in its
\* region rows and in its global rows is one candidate, and its pop_norm and
\* final_score are computed from the count of the global row.
C17_GlobalCountWins ==
    (IsWarm(lastCall) /\ lastCall.status = "ok") =>
        LET rows == PopRows(lastCall)
            all == WarmCandidates(lastCall)
            pop_ids == (TagIds(rows, "region") \cup TagIds(rows, "global")) \ basket
            count(i) == IF i \in TagIds(rows, "global")
                        THEN TagCount(rows, "global", i)
                        ELSE TagCount(rows, "region", i)
            lo == Min({count(i) : i \in pop_ids})
            hi == Max({count(i) : i \in pop_ids})
            alpha == Rat(Cardinality(basket), Cardinality(basket) + 3)
        IN  \A i \in (TagIds(rows, "region") \cap TagIds(rows, "global")) \ basket :
                /\ Cardinality({c \in 1..Len(all) : all[c].item_id = i}) = 1
                /\ \A c \in 1..Len(all) :
                      all[c].item_id = i =>
                          /\ all[c].pop_norm =
                                EpsQuot(TagCount(rows, "global", i) - lo, hi - lo)
                          /\ all[c].final_score =
                                final_score(alpha, ComponentOrZero(all[c].rule_norm),
                                            EpsQuot(TagCount(rows, "global", i) - lo,
                                                    hi - lo))

\* a warm start that returned an item whose region row has the lowest count
\* of all rows and whose global row has a higher one
C17_Witness ==
    /\ IsWarm(lastCall) /\ lastCall.status = "ok"
    /\ region # "GLOBAL"
    /\ \E k \in 1..Len(lastCall.result) :
          LET i == lastCall.result[k].item_id
              rows == PopRows(lastCall)
          IN  /\ i \in TagIds(rows, "region") \cap TagIds(rows, "global")
              /\ TagCount(rows, "region", i) < TagCount(rows, "global", i)
              /\ \A j \in 1..Len(rows) : TagCount(rows, "region", i) <= rows[j][2]
              /\ lastCall.result[k].pop_norm # EpsZero

----------------------------------------------------------------------------
(* Specification SpecUI: the Streamlit script around one engine.  A step   *)
(* is one event of the page: the run of the script the event starts, up to *)
(* its handler, and the run the handler's rerun starts.  session is        *)
(*   [basket, region_selected, top_n]: st.session_state.basket,            *)
(* st.session_state.region_selected and the value of the slider; lastCall  *)
(* holds the event, the engine methods the step called, in order, and the  *)
(* outcome of the last run's recommend.                                    *)

\* st.slider("Top N recommendations", 5, 50, 15)
slider_min == 5
slider_default == 15
SliderValues == {slider_min, slider_default}

\* SELECT DISTINCT region FROM item_popularity; ["GLOBAL"] when the query
\* fails or returns nothing
load_regions(src) ==
    LET found == {src.item_popularity[k].region : k \in 1..Len(src.item_popularity)}
    IN  IF ~src.pop_up \/ found = {} THEN {"GLOBAL"} ELSE found

\* if st.session_state.basket != reco.basket: reco.basket = set(...)
basket_sync(self, ss) ==
    IF ss.basket # self.basket THEN [self EXCEPT !.basket = ss.basket] ELSE self

\* the main area of the script: the sync and reco.recommend(top_n=top_n)
main_area(self, ss, src) == recommend(basket_sync(self, ss), src, ss.top_n)

\* the Remove button: st.session_state.basket.discard(iid); reco.basket.discard(iid)
remove_click(self, ss, iid) ==
    [session |-> [ss EXCEPT !.basket = @ \ {iid}],
     self |-> [self EXCEPT !.basket = @ \ {iid}],
     calls |-> <<>>]

\* the Add buttons: st.session_state.basket.add(iid); reco.basket.add(iid)
add_click(self, ss, iid) ==
    [session |-> [ss EXCEPT !.basket = @ \cup {iid}],
     self |-> [self EXCEPT !.basket = @ \cup {iid}],
     calls |-> <<>>]

\* the Reset basket button: st.session_state.basket = set(); reco.reset_basket()
reset_click(self, ss) ==
    [session |-> [ss EXCEPT !.basket = {}],
     self |-> reset_basket(self),
     calls |-> <<"reset_basket">>]

\* the Confirm region button: reco.set_region(region); region_selected = True
confirm_region_click(self, ss, r) ==
    [session |-> [ss EXCEPT !.region_selected = TRUE],
     self |-> set_region(self, r),
     calls |-> <<"set_region">>]

\* a move of the slider
slider_move(self, ss, n) ==
    [session |-> [ss EXCEPT !.top_n = n], self |-> self, calls |-> <<>>]

UISelf == [basket |-> basket, region |-> region, id_to_item |-> id_to_item]

\* the first run of the script: the engine is built and the run stops at the
\* region selection
InitUI ==
    /\ db \in Databases
    /\ basket = {}
    /\ region = "GLOBAL"
    /\ id_to_item = db.product_map
    /\ session = [basket |-> {}, region_selected |-> FALSE, top_n |-> slider_default]
    /\ lastCall = [op |-> "start", item |-> 0, calls |-> <<"__init__">>,
                   status |-> "stopped", result |-> <<>>]
    /\ NoInterleave
    /\ NoPure

\* safe_rerun(): the script runs again from the top, with the state the
\* handler left, down to the main area
Rerun(event, item, calls_before, h) ==
    \E failure \in Failures :
        \E r \in {main_area(h.self, h.session, Source(db, failure))} :
            /\ basket' = r.self.basket
            /\ region' = r.self.region
            /\ id_to_item' = r.self.id_to_item
            /\ session' = h.session
            /\ lastCall' = [op |-> event, item |-> item,
                            calls |-> calls_before \o h.calls \o <<"recommend">>,
                            status |-> r.status, result |-> r.result]
            /\ UNCHANGED <<db, il, pf>>

UIConfirmRegion ==
    /\ ~session.region_selected
    /\ \E failure \in Failures :
          \E r \in load_regions(Source(db, failure)) :
              Rerun("confirm_region", 0, <<>>, confirm_region_click(UISelf, session, r))

UIRemove ==
    /\ session.region_selected
    /\ \E iid \in session.basket :
          Rerun("remove", iid, <<>>, remove_click(UISelf, session, iid))

\* the Add button of a search match: a row of the catalog
UISearchAdd ==
    /\ session.region_selected
    /\ \E iid \in DOMAIN id_to_item :
          Rerun("search_add", iid, <<>>, add_click(UISelf, session, iid))

UIReset ==
    /\ session.region_selected
    /\ Rerun("reset", 0, <<>>, reset_click(UISelf, session))

\* the Add button of a recommendation: the run the click starts reaches the
\* button after its own recommend has returned the item again
UIRecAdd ==
    /\ session.region_selected
    /\ lastCall.status = "ok"
    /\ \E k \in 1..Len(lastCall.result) :
          \E shown \in {main_area(UISelf, session, Source(db, "none"))} :
              /\ \E j \in 1..Len(shown.result) :
                    shown.result[j].item_id = lastCall.result[k].item_id
              /\ Rerun("rec_add", lastCall.result[k].item_id, <<"recommend">>,
                       add_click(shown.self, session, lastCall.result[k].item_id))

UISlider ==
    /\ session.region_selected
    /\ \E n \in SliderValues \ {session.top_n} :
          Rerun("slider", 0, <<>>, slider_move(UISelf, session, n))

NextUI ==
    \/ UIConfirmRegion
    \/ UIRemove
    \/ UISearchAdd
    \/ UIReset
    \/ UIRecAdd
    \/ UISlider

SpecUI == InitUI /\ [][NextUI]_vars

\* C16: across the engine and the page, the engine's basket gains an item only
\* in a step that calls add_item, loses one only in a step that calls
\* remove_item or reset_basket, and is emptied only by reset_basket.
C16_BasketOnlyByMethods ==
    [][LET called == {lastCall'.calls[i] : i \in 1..Len(lastCall'.calls)}
       IN  /\ basket' \ basket # {} => "add_item" \in called
           /\ basket \ basket' # {} =>
                 "remove_item" \in called \/ "reset_basket" \in called
      ]_vars

====
